---------------------------- MODULE Spec2Model ----------------------------
(***************************************************************************)
(* Model of the historical-data warehouse and the forecasting pipeline of  *)
(* crypto-data-pipeline: src/src/ml/data_warehouse.py (CryptoDataWarehouse)*)
(* and src/src/ml/ml_models.py (CryptoPricePredictor).                     *)
(*                                                                         *)
(* Numbers.  Prices and volumes are integers.  A value a column may miss   *)
(* (pandas NaN, SQL NULL) is a cell: None (missing) or Some(v).  A rolling *)
(* mean over a window w is kept as the pair <<sum, w>> (the rational       *)
(* sum/w); a rolling sample standard deviation over w rows is kept as the  *)
(* integer w*SUM(x^2) - (SUM x)^2, which is w*(w-1) times its square.      *)
(* Dates are day numbers (the text 'YYYY-MM-DD' orders as the day number   *)
(* does); timestamps are in hours.                                         *)
(***************************************************************************)
EXTENDS Integers, Sequences, FiniteSets, TLC

VARIABLES
    historical_prices,     \* table historical_prices: coin -> rows, by timestamp
    technical_indicators,  \* table technical_indicators: coin -> rows, by date
    ml_features,           \* table ml_features: coin -> rows, by date
    prep,                  \* what the last prepare_data + train_test_split gave
    pkl_model,             \* models/<key>_model.pkl: key -> cell
    pkl_scaler,            \* models/<key>_scaler.pkl: key -> cell
    models,                \* self.models of each predictor instance
    scalers,               \* self.scalers of each predictor instance
    pc,                    \* where each instance is inside train_models
    frame,                 \* the locals of the train_models call in progress
    last,                  \* the last call that ended and how it ended
    ncalls,                \* number of train_models calls that fitted models
    ml_predictions,        \* table ml_predictions: rows, in insertion order
    fitted_scores,         \* per key: the feature table it was last fitted on, and the test R2 of the fits
    collector,             \* CryptoDataCollector: the last collect_market_data call
    client                 \* BaseAPIClient: rate limiter, and the request under way

dataVars  == <<historical_prices, technical_indicators, ml_features>>
storeVars == <<pkl_model, pkl_scaler, models, scalers, pc, frame, last, ncalls>>
vars      == <<historical_prices, technical_indicators, ml_features, prep,
               pkl_model, pkl_scaler, models, scalers, pc, frame, last,
               ncalls, ml_predictions,
               fitted_scores, collector, client>>

---------------------------------------------------------------------------
(* Cells *)
None      == <<>>
Some(v)   == <<v>>
notna(c)  == c # None
Val(c)    == c[1]

(* Bounds of the model *)
MaxPrices   == 88    \* longest price series the API returns
MaxCalls    == 2     \* train_models calls that get as far as fitting
MaxR2       == 1     \* test-set R2 scores range over 0..MaxR2
MaxSeries   == 32    \* longest series of the indicator specification
MaxResponse == 3     \* longest response of the collection specification

(* Program constants *)
MIN_SAMPLES == 50    \* ml_models.py:65
LAG_1       == 1     \* data_warehouse.py:239
LAG_7       == 7     \* data_warehouse.py:240
LAG_30      == 30    \* data_warehouse.py:241
RSI_WINDOW  == 14    \* data_warehouse.py:182

Coins     == {"bitcoin", "ethereum"}
Horizons  == {1, 7}
Patterns  == {"trend", "flat", "plateau", "novol"}
SeriesLens == {0, 1, 30, 31, 45} \cup ((MaxPrices - 4)..MaxPrices)

---------------------------------------------------------------------------
(* The price history the API serves: n daily points of one of the shapes   *)
(* in Patterns.  "plateau" holds the price still for 20 days (so that the  *)
(* 14-period gains and losses are all zero there), "novol" has one point   *)
(* without a volume, "zigzag" rises for three days and falls on the        *)
(* fourth, "dip" falls for two days and rises from then on, "step" rises    *)
(* for ten days and is constant from then on, "delisted" rises and is       *)
(* worth nothing on the day after the 80th.                                *)
PriceAt(pat, i) ==
    CASE pat = "trend"   -> 100 + i
      [] pat = "flat"    -> 100
      [] pat = "plateau" -> IF i < 50 THEN 100 + i
                            ELSE IF i < 70 THEN 150 ELSE 80 + i
      [] pat = "novol"   -> 100 + 3 * (i % 5) + i
      [] pat = "zigzag"  -> 100 + 5 * (i % 4)
      [] pat = "dip"     -> IF i <= 3 THEN 110 - 3 * i ELSE 98 + i
      [] pat = "step"    -> IF i <= 10 THEN 100 + i ELSE 110
      [] pat = "delisted" -> IF i <= MIN_SAMPLES + LAG_30 THEN 100 + i ELSE 0

VolumeAt(pat, i) ==
    IF pat = "novol" /\ i = 40 THEN None ELSE Some(1000 + 10 * i)

Response(n, pat) ==
    [i \in 1..n |-> [timestamp  |-> 24 * i,
                     price      |-> PriceAt(pat, i),
                     market_cap |-> Some(1000 * PriceAt(pat, i)),
                     volume     |-> VolumeAt(pat, i)]]

(* The same history as the API serves it during a day: daily points, and *)
(* as the last point the price now, twelve hours after the day's point.    *)
ResponseIntraday(n, pat) ==
    [i \in 1..n |-> [timestamp  |-> IF i = n /\ n > 1 THEN 24 * (i - 1) + 12
                                    ELSE 24 * i,
                     price      |-> PriceAt(pat, i),
                     market_cap |-> Some(1000 * PriceAt(pat, i)),
                     volume     |-> VolumeAt(pat, i)]]

(* datetime.fromtimestamp(timestamp / 1000).strftime('%Y-%m-%d') *)
DateOf(timestamp) == timestamp \div 24

---------------------------------------------------------------------------
(* Tables.  A table is kept as the sequence of its rows in the order of    *)
(* its UNIQUE key (the timestamp for historical_prices, the date for the   *)
(* other two; one coin per table here).  Executing INSERT OR REPLACE for   *)
(* each row of `new` in turn leaves, for every key, the last row of `new`  *)
(* that has it, or else the row `old` had.                                 *)
KeyOf(r, byDate) == IF byDate THEN r.date ELSE r.timestamp

KeysOf(tbl, byDate) == {KeyOf(tbl[i], byDate) : i \in 1..Len(tbl)}

LastWith(tbl, k, byDate) ==
    tbl[CHOOSE i \in 1..Len(tbl) :
            /\ KeyOf(tbl[i], byDate) = k
            /\ \A j \in (i + 1)..Len(tbl) : KeyOf(tbl[j], byDate) # k]

(* A sequence given as a function on 1..n, as the tuple of its values *)
Rows(f) == SubSeq(f, 1, Len(f))

SortedKeys(ks) ==
    LET least == CHOOSE k \in ks : \A k2 \in ks : k <= k2
        most  == CHOOSE k \in ks : \A k2 \in ks : k >= k2
    IN  SelectSeq([i \in 1..(most - least + 1) |-> least + i - 1],
                  LAMBDA k : k \in ks)

InsertAll(old, new, byDate) ==
    LET newKeys == KeysOf(new, byDate)
        ks      == KeysOf(old, byDate) \cup newKeys
        sorted  == SortedKeys(ks)
    IN  IF ks = {} THEN <<>>
        ELSE Rows([p \in 1..Len(sorted) |->
                      IF sorted[p] \in newKeys
                      THEN LastWith(new, sorted[p], byDate)
                      ELSE LastWith(old, sorted[p], byDate)])

(* Sum of xs[lo..hi], by halves *)
RECURSIVE SumOver(_, _, _)
SumOver(xs, lo, hi) ==
    IF lo > hi THEN 0
    ELSE IF lo = hi THEN xs[lo]
    ELSE SumOver(xs, lo, (lo + hi) \div 2) + SumOver(xs, (lo + hi) \div 2 + 1, hi)

MaxOver(xs, lo, hi) ==
    CHOOSE x \in {xs[j] : j \in lo..hi} : \A y \in {xs[j] : j \in lo..hi} : y <= x

MinOver(xs, lo, hi) ==
    CHOOSE x \in {xs[j] : j \in lo..hi} : \A y \in {xs[j] : j \in lo..hi} : y >= x

---------------------------------------------------------------------------
(* CryptoDataWarehouse.collect_historical_data: one row per point of the   *)
(* response, INSERT OR REPLACE on UNIQUE(coin_id, timestamp).              *)
PriceRow(point) ==
    [timestamp  |-> point.timestamp,
     date       |-> DateOf(point.timestamp),
     price      |-> point.price,
     market_cap |-> point.market_cap,
     volume     |-> point.volume]

collect_rows(tbl, response) ==
    InsertAll(tbl, [i \in 1..Len(response) |-> PriceRow(response[i])], FALSE)

(* SELECT ... FROM historical_prices WHERE coin_id = ? ORDER BY date: the  *)
(* table is kept by timestamp and the date grows with the timestamp.       *)
OrderByDate(tbl) == tbl

(* df[col].rolling(window=w).mean() at row i (1-based): missing until w    *)
(* rows exist and when a value in the window is missing.                   *)

(* The mean of the w rows before the row, as rolling(closed='left') *)
RollingMean_before(cells, i, w) ==
    IF i <= w \/ \E j \in (i - w)..(i - 1) : ~notna(cells[j]) THEN None
    ELSE Some(<<SumOver([j \in (i - w)..(i - 1) |-> Val(cells[j])], i - w, i - 1), w>>)

RollingMean(cells, i, w) ==
    IF i < w \/ \E j \in (i - w + 1)..i : ~notna(cells[j]) THEN None
    ELSE Some(<<SumOver([j \in (i - w + 1)..i |-> Val(cells[j])], i - w + 1, i), w>>)

(* df['price'].rolling(window=w).std() at row i, as w*SUM(x^2)-(SUM x)^2 *)
RollingStd(price, i, w) ==
    IF i < w THEN None
    ELSE LET squares == [j \in (i - w + 1)..i |-> price[j] * price[j]]
             s       == SumOver(price, i - w + 1, i)
         IN  Some(w * SumOver(squares, i - w + 1, i) - s * s)

RollingMin(price, i, w) ==
    IF i < w THEN None
    ELSE Some(MinOver(price, i - w + 1, i))

RollingMax(price, i, w) ==
    IF i < w THEN None
    ELSE Some(MaxOver(price, i - w + 1, i))

(* df['price'].shift(k) at row i *)
Shift(price, i, k) == IF i - k >= 1 /\ i - k <= Len(price) THEN Some(price[i - k]) ELSE None

(* delta = df['price'].diff(); delta.where(delta > 0, 0) and                *)
(* -delta.where(delta < 0, 0): the first row, whose delta is NaN, gives 0. *)
Gain(price, j) == IF j > 1 /\ price[j] > price[j - 1] THEN price[j] - price[j - 1] ELSE 0

(* The loss without the negation: delta.where(delta < 0, 0) *)
Loss_signed(price, j) == IF j > 1 /\ price[j] < price[j - 1] THEN price[j] - price[j - 1] ELSE 0

Loss(price, j) == IF j > 1 /\ price[j] < price[j - 1] THEN price[j - 1] - price[j] ELSE 0

(* rs = gain / loss; rsi = 100 - 100 / (1 + rs), kept as the rational      *)
(* <<100 * G, G + L>> of the window sums G and L.  With L = 0 < G the      *)
(* float rs is inf and the rsi 100 = 100 * G / G; with G = L = 0 the rs is *)
(* 0/0 = NaN and so is the rsi.                                            *)

(* The RSI with the neutral value 50 where gains and losses are both zero *)
Rsi14_neutral(price, i) ==
    IF i < RSI_WINDOW THEN None
    ELSE LET gain == [j \in (i - RSI_WINDOW + 1)..i |-> Gain(price, j)]
             loss == [j \in (i - RSI_WINDOW + 1)..i |-> Loss(price, j)]
             G    == SumOver(gain, i - RSI_WINDOW + 1, i)
             L    == SumOver(loss, i - RSI_WINDOW + 1, i)
         IN  IF G + L = 0 THEN Some(<<50, 1>>) ELSE Some(<<100 * G, G + L>>)

Rsi14(price, i) ==
    IF i < RSI_WINDOW THEN None
    ELSE LET gain == [j \in (i - RSI_WINDOW + 1)..i |-> Gain(price, j)]
             loss == [j \in (i - RSI_WINDOW + 1)..i |-> Loss(price, j)]
             G    == SumOver(gain, i - RSI_WINDOW + 1, i)
             L    == SumOver(loss, i - RSI_WINDOW + 1, i)
         IN  IF G + L = 0 THEN None ELSE Some(<<100 * G, G + L>>)

(* The exponential averages (ewm(span).mean(), adjust=True) weigh every    *)
(* earlier price by a power of (span-1)/(span+1); their value is not       *)
(* computed here.  What is kept is that ewm gives a value on every row:    *)
(* the cell holds the number of rows averaged.                             *)
Ewm(i) == Some(i)

(* CryptoDataWarehouse.calculate_technical_indicators: the rows it writes, *)
(* one per row of the price frame.  ema_12, ema_26, the Bollinger bands    *)
(* and volatility are written by the same statement and read by no         *)
(* operation modelled here.                                                *)
IndicatorRows(df) ==
    LET price == Rows([i \in 1..Len(df) |-> df[i].price])
        cells == Rows([i \in 1..Len(df) |-> Some(df[i].price)])
    IN  [i \in 1..Len(df) |->
            [date        |-> df[i].date,
             sma_7       |-> RollingMean(cells, i, 7),
             sma_14      |-> RollingMean(cells, i, 14),
             sma_30      |-> RollingMean(cells, i, 30),
             rsi_14      |-> Rsi14(price, i),
             macd        |-> Ewm(i),
             macd_signal |-> Ewm(i)]]

calculate_rows(tbl, prices) ==
    InsertAll(tbl, IndicatorRows(OrderByDate(prices)), TRUE)

---------------------------------------------------------------------------
(* CryptoDataWarehouse.create_ml_features.                                 *)
(* historical_prices h LEFT JOIN technical_indicators t ON h.date = t.date *)
(* ORDER BY h.date: every price row, with the indicator row of its date    *)
(* (UNIQUE(coin_id, date): at most one) or NULLs.                          *)
NoIndicator(d) ==
    [date |-> d, sma_7 |-> None, sma_14 |-> None, sma_30 |-> None,
     rsi_14 |-> None, macd |-> None, macd_signal |-> None]

IndicatorOf(indicators, d) ==
    IF \E k \in 1..Len(indicators) : indicators[k].date = d
    THEN indicators[CHOOSE k \in 1..Len(indicators) : indicators[k].date = d]
    ELSE NoIndicator(d)

LeftJoin(prices, indicators) ==
    Rows([i \in 1..Len(prices) |->
            [h |-> OrderByDate(prices)[i],
             t |-> IndicatorOf(indicators, OrderByDate(prices)[i].date)]])

(* abs(df['macd'] - df['macd_signal']): missing when either is *)
MacdSignalStrength(t) ==
    IF notna(t.macd) /\ notna(t.macd_signal)
    THEN Some(IF Val(t.macd) >= Val(t.macd_signal)
              THEN Val(t.macd) - Val(t.macd_signal)
              ELSE Val(t.macd_signal) - Val(t.macd))
    ELSE None

(* pct_change(7) is x = price[i]/price[i-7] - 1, NaN on the first 7 rows;  *)
(* lambda x: 1 if x > 0.05 else (-1 if x < -0.05 else 0); both comparisons *)
(* are False on NaN.  The arithmetic is in doubles: the literal 0.05 is    *)
(* 0.05000000000000000277, and when p/q is exactly 21/20 the quotient is   *)
(* the double next to 1.05, 1.0500000000000000444, so that x is            *)
(* 0.0500000000000000444 and x > 0.05 is True (at 19/20 x is               *)
(* -0.0500000000000000444 < -0.05).  For the prices of this model (whole   *)
(* numbers below 3000, q > 0) x > 0.05 is 20*p >= 21*q and x < -0.05 is    *)
(* 20*p <= 19*q.                                                           *)
TrendDirection(price, i) ==
    IF i <= LAG_7 THEN 0
    ELSE LET p == price[i]
             q == price[i - LAG_7]
         IN  IF 20 * p >= 21 * q THEN 1
             ELSE IF 20 * p <= 19 * q THEN -1 ELSE 0

(* if pd.notna(row['price_1d_ago']): the one test that guards the INSERT *)
RowIsWritten(row) == notna(row.price_1d_ago)

FeatureFrame(df) ==
    LET price  == Rows([i \in 1..Len(df) |-> df[i].h.price])
        volume == Rows([i \in 1..Len(df) |-> df[i].h.volume])
    IN  [i \in 1..Len(df) |->
            [date                 |-> df[i].h.date,
             price_current        |-> price[i],
             price_1d_ago         |-> Shift(price, i, LAG_1),
             price_7d_ago         |-> Shift(price, i, LAG_7),
             price_30d_ago        |-> Shift(price, i, LAG_30),
             volume_avg_7d        |-> RollingMean(volume, i, 7),
             volume_avg_30d       |-> RollingMean(volume, i, 30),
             volatility_7d        |-> RollingStd(price, i, 7),
             volatility_30d       |-> RollingStd(price, i, 30),
             rsi_14               |-> df[i].t.rsi_14,
             macd_signal_strength |-> MacdSignalStrength(df[i].t),
             trend_direction      |-> TrendDirection(price, i),
             support_level        |-> RollingMin(price, i, 30),
             resistance_level     |-> RollingMax(price, i, 30)]]

FeatureRows(prices, indicators) ==
    SelectSeq(Rows(FeatureFrame(LeftJoin(prices, indicators))), RowIsWritten)

create_rows(tbl, prices, indicators) ==
    InsertAll(tbl, FeatureRows(prices, indicators), TRUE)

---------------------------------------------------------------------------
(* CryptoPricePredictor.prepare_data: the target column, then dropna().    *)
(* The frame it returns is df; X is its feature columns and y its target.  *)
FeatureColumns(r) ==
    <<r.price_1d_ago, r.price_7d_ago, r.price_30d_ago, r.volume_avg_7d,
      r.volume_avg_30d, r.volatility_7d, r.volatility_30d, r.rsi_14,
      r.macd_signal_strength, Some(r.trend_direction), r.support_level,
      r.resistance_level>>

(* df['price_current'].shift(-target_days) *)
WithTarget(tbl, target_days) ==
    LET price == Rows([i \in 1..Len(tbl) |-> tbl[i].price_current])
    IN  [i \in 1..Len(tbl) |->
            [row |-> tbl[i], target |-> Shift(price, i, 0 - target_days)]]

(* dropna(): a row stays when none of its columns is missing *)
NoNaN(r) ==
    /\ notna(r.target)
    /\ LET cols == FeatureColumns(r.row)
       IN  \A k \in 1..Len(cols) : notna(cols[k])

(* prepare_data with the cleaning done before the shift: the target is    *)
(* then counted over the rows that are left                                *)
FeaturesPresent(r) ==
    LET cols == FeatureColumns(r)
    IN  \A k \in 1..Len(cols) : notna(cols[k])

prepare_data_dropna_first(tbl, target_days) ==
    SelectSeq(Rows(WithTarget(SelectSeq(tbl, FeaturesPresent), target_days)),
              NoNaN)

prepare_data(tbl, target_days) ==
    SelectSeq(Rows(WithTarget(tbl, target_days)), NoNaN)

(* sklearn train_test_split(X, y, test_size=0.2, shuffle=False):           *)
(* n_test = ceil(0.2 * n), n_train = n - n_test, the first n_train rows    *)
(* train and the rest test.                                                *)
NTest(n)  == (n + 4) \div 5
NTrain(n) == n - NTest(n)

(* train_test_split with the held-out rows taken from the front *)
train_test_split_head(df) ==
    [train |-> SubSeq(df, NTest(Len(df)) + 1, Len(df)),
     test  |-> SubSeq(df, 1, NTest(Len(df)))]

train_test_split(df) ==
    [train |-> SubSeq(df, 1, NTrain(Len(df))),
     test  |-> SubSeq(df, NTrain(Len(df)) + 1, Len(df))]

(* the front of train_models with the threshold test written <= *)
TrainFront_le(tbl, target_days) ==
    LET df == prepare_data(tbl, target_days)
    IN  IF Len(tbl) = 0
        THEN [outcome |-> "ValueError", df |-> <<>>, train |-> <<>>, test |-> <<>>]
        ELSE IF Len(df) <= MIN_SAMPLES
        THEN [outcome |-> "False", df |-> df, train |-> <<>>, test |-> <<>>]
        ELSE [outcome |-> "split", df |-> df,
              train |-> train_test_split(df).train,
              test  |-> train_test_split(df).test]

(* train_models up to the split (lines 63-72): prepare_data raises         *)
(* ValueError on an empty table; fewer than 50 cleaned rows return False;  *)
(* otherwise the rows are split.                                           *)
TrainFront(tbl, target_days) ==
    LET df == prepare_data(tbl, target_days)
    IN  IF Len(tbl) = 0
        THEN [outcome |-> "ValueError", df |-> <<>>, train |-> <<>>, test |-> <<>>]
        ELSE IF Len(df) < MIN_SAMPLES
        THEN [outcome |-> "False", df |-> df, train |-> <<>>, test |-> <<>>]
        ELSE [outcome |-> "split", df |-> df,
              train |-> train_test_split(df).train,
              test  |-> train_test_split(df).test]

---------------------------------------------------------------------------
(* State of the model store and of the predictor instances *)
Instances == {1, 2}
Trainers  == {1}

(* a key made of the coin alone *)
model_key_coin_only(coin_id, target_days) == coin_id

(* model_key = f"{coin_id}_{target_days}d" *)
model_key(coin_id, target_days) == coin_id \o "_" \o ToString(target_days) \o "d"

KeySet == {model_key(c, h) : c \in Coins, h \in Horizons}

NoInfo  == [key |-> ""]
NoFrame == [key |-> "", coin |-> "", days |-> 0, call |-> 0, r2 |-> <<>>,
            best |-> None, scaler |-> None, pre_model |-> None,
            pre_scaler |-> None]
NoCall  == [op |-> "none", coin |-> "", days |-> 0, inst |-> 0,
            outcome |-> "none", info |-> NoInfo]
NoPrep  == [coin |-> "", days |-> 0, tbl |-> <<>>, front |-> TrainFront(<<>>, 1)]

(* The record of a call that ends now: what was called, by which instance, *)
(* what it returned or raised, and the values it worked with.              *)
EndedWith(op, coin, days, inst, outcome, info) ==
    [op |-> op, coin |-> coin, days |-> days, inst |-> inst,
     outcome |-> outcome, info |-> info]

Ended(op, coin, days, inst, outcome) ==
    EndedWith(op, coin, days, inst, outcome, NoInfo)

(* The ingestion side.  BaseAPIClient (base_client.py): rate_limit is the  *)
(* client's field; time_since_last_request is time.time() -                *)
(* self.last_request_time, in whole seconds; pc is where the _make_request *)
(* under way stands ("idle" when none is), retry whether it is at a retry  *)
(* after a 429, sent how many requests the client has sent (0, 1, or 2 for *)
(* two or more), separation the time between the last two of them, and     *)
(* outcome how the last call ended.  Times and rate limits above           *)
(* MaxRateLimit are kept as MaxRateLimit.  A new client has                *)
(* last_request_time = 0, the epoch.                                       *)
MaxRateLimit       == 100
MaxLimit           == 520
DEFAULT_RATE_LIMIT == 1
PRO_RATE_LIMIT     == 2
FREE_RATE_LIMIT    == 6
RETRY_SLEEP        == 60
MIN_RETRY_LIMIT    == 10
PER_PAGE_MAX       == 250

Saturated(t) == IF t > MaxRateLimit THEN MaxRateLimit ELSE t

NewClient(rate_limit) ==
    [rate_limit              |-> rate_limit,
     time_since_last_request |-> MaxRateLimit,
     pc                      |-> "idle",
     retry                   |-> FALSE,
     sent                    |-> 0,
     separation              |-> MaxRateLimit,
     outcome                 |-> "none"]

NoCollection == [limit |-> 0, collected_data |-> <<>>]

IngestionInit ==
    /\ collector = NoCollection
    /\ client = NewClient(FREE_RATE_LIMIT)

StoreInit ==
    /\ pkl_model  = [k \in KeySet |-> None]
    /\ pkl_scaler = [k \in KeySet |-> None]
    /\ models     = [i \in Instances |-> [k \in KeySet |-> None]]
    /\ scalers    = [i \in Instances |-> [k \in KeySet |-> None]]
    /\ pc         = [i \in Instances |-> "idle"]
    /\ frame      = [i \in Instances |-> NoFrame]
    /\ last       = NoCall
    /\ ncalls     = 0
    /\ ml_predictions = <<>>
    /\ fitted_scores = [k \in KeySet |-> None]
    /\ IngestionInit

---------------------------------------------------------------------------
(* The warehouse population: collection, indicators, features, and the     *)
(* front of a training call over the features.                             *)
DataCoins == {"bitcoin"}

(* The population run collects a coin once, into its empty price table     *)
(* (first conjunct); the rest is the handler.                              *)
collect_historical_data(coin, n, pat) ==
    /\ Len(historical_prices[coin]) = 0
    /\ historical_prices' =
           [historical_prices EXCEPT ![coin] = collect_rows(@, Response(n, pat))]
    /\ last' = Ended("collect_historical_data", coin, 0, 0, "True")
    /\ UNCHANGED <<technical_indicators, ml_features, prep, ml_predictions, fitted_scores, pkl_model,
                   pkl_scaler, models, scalers, pc, frame, ncalls,
                   collector, client>>

(* collect_historical_data for any response of the API, over whatever the  *)
(* price table holds.                                                      *)
collect_response(coin, response) ==
    /\ historical_prices' =
           [historical_prices EXCEPT ![coin] = collect_rows(@, response)]
    /\ last' = Ended("collect_historical_data", coin, 0, 0, "True")
    /\ UNCHANGED <<technical_indicators, ml_features, prep, ml_predictions, fitted_scores, pkl_model,
                   pkl_scaler, models, scalers, pc, frame, ncalls,
                   collector, client>>

(* requests.get or raise_for_status raised: the except branch, before any  *)
(* row is written.                                                         *)
collect_failed(coin) ==
    /\ Len(historical_prices[coin]) = 0
    /\ last' = Ended("collect_historical_data", coin, 0, 0, "False")
    /\ UNCHANGED <<historical_prices, technical_indicators, ml_features, prep, ml_predictions, fitted_scores,
                   pkl_model, pkl_scaler, models, scalers, pc, frame, ncalls,
                   collector, client>>

calculate_technical_indicators(coin) ==
    /\ IF Len(historical_prices[coin]) = 0
       THEN /\ last' = Ended("calculate_technical_indicators", coin, 0, 0, "False")
            /\ UNCHANGED technical_indicators
       ELSE /\ technical_indicators' =
                   [technical_indicators EXCEPT
                       ![coin] = calculate_rows(@, historical_prices[coin])]
            /\ last' = Ended("calculate_technical_indicators", coin, 0, 0, "True")
    /\ UNCHANGED <<historical_prices, ml_features, prep, ml_predictions, fitted_scores, pkl_model,
                   pkl_scaler, models, scalers, pc, frame, ncalls,
                   collector, client>>

create_ml_features(coin) ==
    /\ IF Len(historical_prices[coin]) = 0
       THEN /\ last' = Ended("create_ml_features", coin, 0, 0, "False")
            /\ UNCHANGED ml_features
       ELSE /\ ml_features' =
                   [ml_features EXCEPT
                       ![coin] = create_rows(@, historical_prices[coin],
                                             technical_indicators[coin])]
            /\ last' = Ended("create_ml_features", coin, 0, 0, "True")
    /\ UNCHANGED <<historical_prices, technical_indicators, prep, ml_predictions, fitted_scores,
                   pkl_model, pkl_scaler, models, scalers, pc, frame, ncalls,
                   collector, client>>

(* prepare_data and train_test_split as train_models calls them *)
prepare_and_split(coin, target_days) ==
    /\ prep' = [coin |-> coin, days |-> target_days, tbl |-> ml_features[coin],
                front |-> TrainFront(ml_features[coin], target_days)]
    /\ last' = Ended("prepare_data", coin, target_days, 0,
                     TrainFront(ml_features[coin], target_days).outcome)
    /\ UNCHANGED <<historical_prices, technical_indicators, ml_features,
                   pkl_model, pkl_scaler, models, scalers, pc, frame,
                   ncalls, ml_predictions,
               fitted_scores,
                   collector, client>>

DataInit ==
    /\ historical_prices    = [c \in Coins |-> <<>>]
    /\ technical_indicators = [c \in Coins |-> <<>>]
    /\ ml_features          = [c \in Coins |-> <<>>]
    /\ prep                 = NoPrep
    /\ StoreInit

DataNext ==
    \/ \E c \in DataCoins, n \in SeriesLens, pat \in Patterns :
           collect_historical_data(c, n, pat)
    \/ \E c \in DataCoins : collect_failed(c)
    \/ \E c \in DataCoins : calculate_technical_indicators(c)
    \/ \E c \in DataCoins : create_ml_features(c)
    \/ \E c \in DataCoins, h \in Horizons : prepare_and_split(c, h)

SpecData == DataInit /\ [][DataNext]_vars

(* The indicator and feature computations over short series of every      *)
(* shape, daily and with a last point during the day; a coin is collected  *)
(* once.                                                                   *)
ShortPatterns == {"trend", "flat", "zigzag", "dip", "step"}
ShortLens     == {RSI_WINDOW + 1, LAG_30, MaxSeries}
SeriesResponses ==
    {Response(n, pat) : n \in ShortLens, pat \in ShortPatterns}
        \cup {ResponseIntraday(n, pat) : n \in ShortLens, pat \in ShortPatterns}

SeriesNext ==
    \/ \E c \in DataCoins, response \in SeriesResponses :
           Len(historical_prices[c]) = 0 /\ collect_response(c, response)
    \/ \E c \in DataCoins : collect_failed(c)
    \/ \E c \in DataCoins : calculate_technical_indicators(c)
    \/ \E c \in DataCoins : create_ml_features(c)

SpecSeries == DataInit /\ [][SeriesNext]_vars

(* The collection called again and again over the same days: the API       *)
(* serves the days' points, with or without a last point during the day,   *)
(* and what it serves for a day is not bound to what it served before.     *)
CollectResponses ==
    {Response(n, pat) : n \in 1..MaxResponse, pat \in ShortPatterns}
        \cup {ResponseIntraday(n, pat) : n \in 1..MaxResponse, pat \in ShortPatterns}

CollectNext ==
    \/ \E c \in DataCoins, response \in CollectResponses :
           collect_response(c, response)
    \/ \E c \in DataCoins : collect_failed(c)

SpecCollect == DataInit /\ [][CollectNext]_vars

(* main of data_warehouse.py: for coin in coins: if collect_historical_    *)
(* data(coin): calculate_technical_indicators(coin); create_ml_features(   *)
(* coin); then time.sleep(2) and the next coin.  The calls run one after   *)
(* the other in one thread, so the call that returned last (the variable   *)
(* last) tells where main is: before the first coin, inside the if after   *)
(* a successful collection, between the two calls of the if, or at the     *)
(* end of the loop body.  A response may be empty (the collection then     *)
(* returns True and has written nothing).                                  *)
MainCoins == <<"bitcoin", "ethereum">>

IndexOf(coin) == CHOOSE k \in 1..Len(MainCoins) : MainCoins[k] = coin

(* a main that ends when a collection failed *)
NextToCollect_stop_on_failure ==
    IF last = NoCall THEN 1
    ELSE IF last.op = "create_ml_features"
    THEN IndexOf(last.coin) + 1
    ELSE 0

(* The index of the coin whose collection is the next call of main; 0 when *)
(* the next call is not a collection.                                      *)
NextToCollect ==
    IF last = NoCall THEN 1
    ELSE IF last.op = "create_ml_features"
         \/ (last.op = "collect_historical_data" /\ last.outcome = "False")
    THEN IndexOf(last.coin) + 1
    ELSE 0

MainResponses ==
    {Response(n, pat) : n \in {0, RSI_WINDOW + 1}, pat \in ShortPatterns}

MainCollect ==
    \/ \E response \in MainResponses :
           /\ NextToCollect \in 1..Len(MainCoins)
           /\ collect_response(MainCoins[NextToCollect], response)
    \/ /\ NextToCollect \in 1..Len(MainCoins)
       /\ collect_failed(MainCoins[NextToCollect])

MainNext ==
    \/ MainCollect
    \/ /\ last.op = "collect_historical_data" /\ last.outcome = "True"
       /\ calculate_technical_indicators(last.coin)
    \/ /\ last.op = "calculate_technical_indicators"
       /\ create_ml_features(last.coin)

(* The loop reaches its next collection: the request of a collection has   *)
(* a timeout, and a collection returns or fails.                           *)
SpecMain == DataInit /\ [][MainNext]_vars /\ WF_vars(MainCollect)

---------------------------------------------------------------------------
(* CryptoPricePredictor.train_models and predict_price over the model      *)
(* store.  A fitted model is [kind, call]: which candidate it is and the   *)
(* train_models call that fitted it; a scaler is [call].  The test-set R2  *)
(* of each candidate is an input of the call.                              *)
Candidates == <<"random_forest", "gradient_boosting", "linear_regression">>
R2Values   == 0..MaxR2
R2Inputs   == [1..Len(Candidates) -> R2Values]

(* the selection with min in place of max *)
BestIndex_min(r2) ==
    CHOOSE k \in 1..Len(r2) :
        /\ \A j \in 1..Len(r2) : r2[k] <= r2[j]
        /\ \A j \in 1..(k - 1) : r2[k] < r2[j]

(* max(results.keys(), key=lambda k: results[k]['r2']): Python's max keeps *)
(* the first of the greatest, in the dict's insertion order.               *)
BestIndex(r2) ==
    CHOOSE k \in 1..Len(r2) :
        /\ \A j \in 1..Len(r2) : r2[j] <= r2[k]
        /\ \A j \in 1..(k - 1) : r2[j] < r2[k]

best_model_name(r2) == Candidates[BestIndex(r2)]

(* every candidate fitted on the normalized features *)
FitsOnScaled_always(name) == TRUE

(* Lines 91-96: if name == 'linear_regression': model.fit(X_train_scaled,  *)
(* y_train), else: model.fit(X_train, y_train).  cross_val_score fits      *)
(* clones and leaves the model as it is.                                   *)
FitsOnScaled(name) == name = "linear_regression"

(* The model of a candidate as train_models call number call leaves it:    *)
(* its class (LinearRegression for 'linear_regression', ...), the call,    *)
(* and whether it was fitted on normalized features.                       *)
Fitted(name, call) ==
    [kind |-> name, call |-> call, scaled |-> FitsOnScaled(name)]

AllIdle == \A i \in Instances : pc[i] = "idle"

(* What fitted_scores keeps of a feature table: the number of its rows and *)
(* its last row.  No specification that trains changes a feature table,    *)
(* so this tells the tables of a key apart.                                *)
Seen(features) ==
    [rows |-> Len(features),
     last |-> IF Len(features) = 0 THEN None
              ELSE Some(features[Len(features)])]

(* SameFit_never: fits that do not reproduce their scores.                 *)
(* Lines 88-97: every fit is seeded (random_state=42) or closed-form, so   *)
(* the fits, and with them the test R2 of the candidates, are a function   *)
(* of the feature table and the key: a key fitted again on the table it    *)
(* was fitted on before gets the scores it got before.                     *)
SameFit_never(key, features) == FALSE

SameFit(key, features) ==
    /\ notna(fitted_scores[key])
    /\ Val(fitted_scores[key]).features = Seen(features)

(* Lines 60-67: prepare_data raised, or gave fewer than 50 rows: the call  *)
(* ends before any fit.                                                    *)
TrainAborts(i, coin_id, target_days, outcome) ==
    /\ last' = Ended("train_models", coin_id, target_days, i, outcome)
    /\ UNCHANGED <<pc, frame, ncalls, models, scalers>>

(* Lines 69-133: the split, the fits, the selection, and                   *)
(* self.models[model_key] = best_model; self.scalers[model_key] = scaler.  *)
(* r2 is the test R2 the fits of the call get.                             *)
TrainFits(i, coin_id, target_days, r2) ==
    LET key == model_key(coin_id, target_days)
    IN  /\ ncalls < MaxCalls
        /\ ncalls' = ncalls + 1
        /\ frame' = [frame EXCEPT ![i] =
               [key        |-> key,
                coin       |-> coin_id,
                days       |-> target_days,
                call       |-> ncalls + 1,
                r2         |-> r2,
                best       |-> Some(Fitted(best_model_name(r2), ncalls + 1)),
                scaler     |-> Some([call |-> ncalls + 1]),
                pre_model  |-> pkl_model[key],
                pre_scaler |-> pkl_scaler[key]]]
        /\ models'  = [models  EXCEPT ![i][key] = frame'[i].best]
        /\ scalers' = [scalers EXCEPT ![i][key] = frame'[i].scaler]
        /\ pc' = [pc EXCEPT ![i] = "dump_model"]
        /\ UNCHANGED last

(* Lines 58-133 of train_models, with the scores of its fits an input of   *)
(* the call: any R2 vector, whatever an earlier call got.  Nothing outside *)
(* the instance changes.                                                   *)
TrainBegin(i, coin_id, target_days) ==
    LET front == TrainFront(ml_features[coin_id], target_days)
    IN  /\ pc[i] = "idle"
        /\ IF front.outcome # "split"
           THEN TrainAborts(i, coin_id, target_days, front.outcome)
           ELSE \E r2 \in R2Inputs : TrainFits(i, coin_id, target_days, r2)
        /\ UNCHANGED <<historical_prices, technical_indicators, ml_features,
                       prep, ml_predictions, fitted_scores, pkl_model,
                       pkl_scaler, collector, client>>

(* train_models with the scores of its fits reproduced: the R2 vector of   *)
(* a call over the table the key was fitted on before is the one that fit  *)
(* got, and the call leaves its own for the calls after it.                *)
TrainBeginSeeded(i, coin_id, target_days) ==
    LET front == TrainFront(ml_features[coin_id], target_days)
        key   == model_key(coin_id, target_days)
    IN  /\ pc[i] = "idle"
        /\ IF front.outcome # "split"
           THEN /\ TrainAborts(i, coin_id, target_days, front.outcome)
                /\ UNCHANGED fitted_scores
           ELSE \E r2 \in R2Inputs :
                    /\ SameFit(key, ml_features[coin_id])
                           => r2 = Val(fitted_scores[key]).r2
                    /\ TrainFits(i, coin_id, target_days, r2)
                    /\ fitted_scores' = [fitted_scores EXCEPT ![key] =
                           Some([features |-> Seen(ml_features[coin_id]),
                                 r2       |-> r2])]
        /\ UNCHANGED <<historical_prices, technical_indicators, ml_features,
                       prep, ml_predictions, pkl_model, pkl_scaler,
                       collector, client>>

(* the model dump skipped when the key already has a model file *)
TrainDumpModel_keep_existing(i) ==
    /\ pc[i] = "dump_model"
    /\ pkl_model' = IF notna(pkl_model[frame[i].key]) THEN pkl_model
                    ELSE [pkl_model EXCEPT ![frame[i].key] = frame[i].best]
    /\ pc' = [pc EXCEPT ![i] = "dump_scaler"]
    /\ UNCHANGED <<historical_prices, technical_indicators, ml_features,
                   prep, ml_predictions, fitted_scores, pkl_scaler, models, scalers, frame, last,
                   ncalls,
                   collector, client>>

(* Line 136: joblib.dump(best_model, f'models/{model_key}_model.pkl') *)
TrainDumpModel(i) ==
    /\ pc[i] = "dump_model"
    /\ pkl_model' = [pkl_model EXCEPT ![frame[i].key] = frame[i].best]
    /\ pc' = [pc EXCEPT ![i] = "dump_scaler"]
    /\ UNCHANGED <<historical_prices, technical_indicators, ml_features,
                   prep, ml_predictions, fitted_scores, pkl_scaler, models, scalers, frame, last,
                   ncalls,
                   collector, client>>

(* Lines 137-139: joblib.dump(scaler, ...); return results *)
TrainDumpScaler(i) ==
    /\ pc[i] = "dump_scaler"
    /\ pkl_scaler' = [pkl_scaler EXCEPT ![frame[i].key] = frame[i].scaler]
    /\ pc' = [pc EXCEPT ![i] = "idle"]
    /\ frame' = [frame EXCEPT ![i] = NoFrame]
    /\ last' = EndedWith("train_models", frame[i].coin, frame[i].days, i,
                         "results",
                         [key        |-> frame[i].key,
                          call       |-> frame[i].call,
                          pre_model  |-> frame[i].pre_model,
                          pre_scaler |-> frame[i].pre_scaler])
    /\ UNCHANGED <<historical_prices, technical_indicators, ml_features,
                   prep, ml_predictions, fitted_scores, pkl_model, models, scalers, ncalls,
                   collector, client>>

(* The process that runs train_models dies (killed, power lost) somewhere  *)
(* after the fits: its instance and the call's locals are gone, the files  *)
(* stay as they are.  The record keeps what the files of the key hold now. *)
Crash(i) ==
    /\ pc[i] # "idle"
    /\ pc' = [pc EXCEPT ![i] = "idle"]
    /\ frame' = [frame EXCEPT ![i] = NoFrame]
    /\ models'  = [models  EXCEPT ![i] = [k \in KeySet |-> None]]
    /\ scalers' = [scalers EXCEPT ![i] = [k \in KeySet |-> None]]
    /\ last' = EndedWith("train_models", frame[i].coin, frame[i].days, i,
                         "crashed",
                         [key        |-> frame[i].key,
                          pre_model  |-> frame[i].pre_model,
                          pre_scaler |-> frame[i].pre_scaler,
                          model_now  |-> pkl_model[frame[i].key],
                          scaler_now |-> pkl_scaler[frame[i].key]])
    /\ UNCHANGED <<historical_prices, technical_indicators, ml_features,
                   prep, ml_predictions, fitted_scores, pkl_model, pkl_scaler, ncalls,
                   collector, client>>

(* CryptoPricePredictor.__init__: a new instance (a new run of the script, *)
(* a dashboard process) starts with empty maps.                            *)
NewPredictor(i) ==
    /\ pc[i] = "idle"
    /\ models'  = [models  EXCEPT ![i] = [k \in KeySet |-> None]]
    /\ scalers' = [scalers EXCEPT ![i] = [k \in KeySet |-> None]]
    /\ UNCHANGED <<historical_prices, technical_indicators, ml_features,
                   prep, ml_predictions, fitted_scores, pkl_model, pkl_scaler, pc, frame, last,
                   ncalls,
                   collector, client>>

(* CryptoPricePredictor.predict_price.  Lines 146-152 load the two files   *)
(* when the key is not in self.models: the model first, so that a missing  *)
(* scaler file leaves the model in self.models; FileNotFoundError returns  *)
(* None.  Lines 155-166 read the row of the greatest date (None when the   *)
(* coin has no feature row); lines 172-173 take the model and the scaler   *)
(* of the key from the maps (KeyError when the scaler is not there); the   *)
(* scaler is applied for a LinearRegression only.                          *)
(*                                                                         *)
(* What a call reads besides the files, the maps and the feature table is  *)
(* its run: prediction, the value model.predict(X)[0] gives; variance, the *)
(* np.var of the predictions of the trees of the model (for a random       *)
(* forest the mean of these is the forest's prediction); and whether       *)
(* midnight passes between the datetime.now() of 'prediction_date' and the *)
(* datetime.now() of 'target_date', which are two readings of the clock.   *)
Today       == MaxPrices + 1
Predicted   == {0, 110}
Variances   == {0, 55, 220}
Runs        == [prediction : Predicted, variance : Variances, midnight : BOOLEAN]
PlainRun    == [prediction |-> 110, variance |-> 0, midnight |-> FALSE]

(* ((prediction - current_price) / current_price) * 100 on numpy doubles,  *)
(* kept as the rational <<numerator, denominator>>.  A division by 0.0     *)
(* does not raise: it gives inf (<<1, 0>>), -inf (<<-1, 0>>) or, for 0/0,  *)
(* nan (<<0, 0>>).                                                         *)
PriceChange(prediction, current_price) ==
    IF current_price # 0
    THEN <<100 * (prediction - current_price), current_price>>
    ELSE IF prediction > 0 THEN <<1, 0>>
    ELSE IF prediction < 0 THEN <<-1, 0>> ELSE <<0, 0>>

(* max(0, min(1, 1 - (variance / np.mean(predictions)))), as the rational  *)
(* <<numerator, denominator>>, for a variance >= 0.  With mean 0 the       *)
(* quotient is nan (variance 0: min(1, nan) is 1) or inf (1 - inf = -inf,  *)
(* raised to 0); with a negative mean 1 - variance/mean >= 1.              *)
TreeConfidence(mean, variance) ==
    IF mean = 0 THEN (IF variance = 0 THEN <<1, 1>> ELSE <<0, 1>>)
    ELSE IF mean < 0 THEN <<1, 1>>
    ELSE IF variance >= mean THEN <<0, 1>>
    ELSE <<mean - variance, mean>>

(* _calculate_confidence: the trees' variance for an instance of           *)
(* RandomForestRegressor, 0.75 for every other model.                      *)
Confidence(model, run) ==
    IF Val(model).kind = "random_forest"
    THEN TreeConfidence(run.prediction, run.variance)
    ELSE <<3, 4>>

Prediction(model, scaler, row, coin_id, target_days, run) ==
    [model       |-> model,
     scaler      |-> scaler,
     transformed |-> Val(model).kind = "linear_regression",
     date        |-> row.date,
     coin_id     |-> coin_id,
     current_price        |-> row.price_current,
     predicted_price      |-> run.prediction,
     price_change_percent |-> PriceChange(run.prediction, row.price_current),
     prediction_date      |-> Today,
     target_date          |-> (IF run.midnight THEN Today + 1 ELSE Today)
                                  + target_days,
     confidence           |-> Confidence(model, run)]

MostRecent(tbl) == tbl[Len(tbl)]

(* predict_price that, finding no model of the key, fits and saves one *)
predict_price_autotrain(i, coin_id, target_days, run) ==
    LET key     == model_key(coin_id, target_days)
        cached  == notna(models[i][key])
        noModel == ~cached /\ ~notna(pkl_model[key])
        fitted  == Some(Fitted(Candidates[1], 0))
        fscaler == Some([call |-> 0])
        model   == IF cached THEN models[i][key]
                   ELSE IF noModel THEN fitted ELSE pkl_model[key]
        scaler  == IF cached THEN scalers[i][key]
                   ELSE IF noModel THEN fscaler ELSE pkl_scaler[key]
    IN  /\ pc[i] = "idle"
        /\ pkl_model' = IF noModel THEN [pkl_model EXCEPT ![key] = fitted]
                        ELSE pkl_model
        /\ pkl_scaler' = IF noModel THEN [pkl_scaler EXCEPT ![key] = fscaler]
                         ELSE pkl_scaler
        /\ models' = [models EXCEPT ![i][key] = model]
        /\ scalers' = [scalers EXCEPT ![i][key] = scaler]
        /\ last' =
               IF Len(ml_features[coin_id]) = 0
               THEN Ended("predict_price", coin_id, target_days, i, "None")
               ELSE IF ~notna(scaler)
               THEN Ended("predict_price", coin_id, target_days, i, "KeyError")
               ELSE EndedWith("predict_price", coin_id, target_days, i,
                              "prediction",
                              Prediction(model, scaler,
                                         MostRecent(ml_features[coin_id]),
                                         coin_id, target_days, run))
        /\ UNCHANGED <<historical_prices, technical_indicators, ml_features,
                       prep, ml_predictions, fitted_scores, pc, frame, ncalls,
                   collector, client>>

predict_price(i, coin_id, target_days, run) ==
    LET key     == model_key(coin_id, target_days)
        cached  == notna(models[i][key])
        noModel == ~cached /\ ~notna(pkl_model[key])
        noScal  == ~cached /\ notna(pkl_model[key]) /\ ~notna(pkl_scaler[key])
        model   == IF cached THEN models[i][key] ELSE pkl_model[key]
        scaler  == IF cached THEN scalers[i][key] ELSE pkl_scaler[key]
    IN  /\ pc[i] = "idle"
        /\ models' = IF cached \/ noModel THEN models
                     ELSE [models EXCEPT ![i][key] = pkl_model[key]]
        /\ scalers' = IF cached \/ noModel \/ noScal THEN scalers
                      ELSE [scalers EXCEPT ![i][key] = pkl_scaler[key]]
        /\ last' =
               IF noModel \/ noScal
               THEN Ended("predict_price", coin_id, target_days, i, "None")
               ELSE IF Len(ml_features[coin_id]) = 0
               THEN Ended("predict_price", coin_id, target_days, i, "None")
               ELSE IF ~notna(scaler)
               THEN Ended("predict_price", coin_id, target_days, i, "KeyError")
               ELSE EndedWith("predict_price", coin_id, target_days, i,
                              "prediction",
                              Prediction(model, scaler,
                                         MostRecent(ml_features[coin_id]),
                                         coin_id, target_days, run))
        /\ UNCHANGED <<historical_prices, technical_indicators, ml_features,
                       prep, ml_predictions, fitted_scores, pkl_model, pkl_scaler, pc, frame, ncalls,
                   collector, client>>

---------------------------------------------------------------------------
(* The model store with one call running at a time (the scripts call       *)
(* train_models and predict_price one after the other), over feature       *)
(* tables the warehouse population built.                                  *)
FeaturesOf(n, pat) ==
    create_rows(<<>>, collect_rows(<<>>, Response(n, pat)),
                calculate_rows(<<>>, collect_rows(<<>>, Response(n, pat))))

LongSeries  == {MIN_SAMPLES + LAG_30 + 1}
ShortSeries == {0}

Init ==
    /\ \E nb \in LongSeries, ne \in ShortSeries :
          /\ historical_prices =
                 [c \in Coins |-> collect_rows(<<>>,
                      Response(IF c = "bitcoin" THEN nb ELSE ne, "trend"))]
          /\ technical_indicators =
                 [c \in Coins |-> calculate_rows(<<>>, collect_rows(<<>>,
                      Response(IF c = "bitcoin" THEN nb ELSE ne, "trend")))]
          /\ ml_features =
                 [c \in Coins |->
                      FeaturesOf(IF c = "bitcoin" THEN nb ELSE ne, "trend")]
    /\ prep = NoPrep
    /\ StoreInit

Next ==
    \/ \E i \in Trainers, c \in Coins, h \in Horizons :
           AllIdle /\ TrainBegin(i, c, h)
    \/ \E i \in Instances : TrainDumpModel(i)
    \/ \E i \in Instances : TrainDumpScaler(i)
    \/ \E i \in Instances : Crash(i)
    \/ \E i \in Instances : AllIdle /\ NewPredictor(i)
    \/ \E i \in Instances, c \in Coins, h \in Horizons :
           AllIdle /\ predict_price(i, c, h, PlainRun)

Spec == Init /\ [][Next]_vars

(* One predictor trains, and trains again, over feature tables that do not *)
(* change, its fits reproducing their scores; a call may die.              *)
RetrainNext ==
    \/ \E i \in Trainers, c \in Coins, h \in Horizons :
           TrainBeginSeeded(i, c, h)
    \/ \E i \in Trainers : TrainDumpModel(i)
    \/ \E i \in Trainers : TrainDumpScaler(i)
    \/ \E i \in Trainers : Crash(i)

SpecRetrain == Init /\ [][RetrainNext]_vars

(* Two processes, each with its own predictor, each calling train_models   *)
(* once: the calls run at the same time and their steps interleave in      *)
(* every order.  No process dies.  The feature table of bitcoin is long    *)
(* enough to train every horizon; the R2 scores of a call make one of the  *)
(* candidates the single best.                                             *)
HasTrained(i) == \E k \in KeySet : notna(models[i][k])

LongestHorizon == CHOOSE h \in Horizons : \A g \in Horizons : g <= h

ConcurrentSeries(coin) ==
    Response(IF coin = "bitcoin" THEN MIN_SAMPLES + LAG_30 + LongestHorizon
             ELSE 0, "trend")

ConcurrentR2 ==
    {[k \in 1..Len(Candidates) |-> IF k = w THEN MaxR2 ELSE 0] :
        w \in 1..Len(Candidates)}

ConcurrentInit ==
    /\ historical_prices =
           [c \in Coins |-> collect_rows(<<>>, ConcurrentSeries(c))]
    /\ technical_indicators =
           [c \in Coins |->
               calculate_rows(<<>>, collect_rows(<<>>, ConcurrentSeries(c)))]
    /\ ml_features =
           [c \in Coins |->
               create_rows(<<>>, collect_rows(<<>>, ConcurrentSeries(c)),
                           calculate_rows(<<>>,
                               collect_rows(<<>>, ConcurrentSeries(c))))]
    /\ prep = NoPrep
    /\ StoreInit

ConcurrentNext ==
    \/ \E i \in Instances, c \in Coins, h \in Horizons :
           /\ ~HasTrained(i)
           /\ TrainBegin(i, c, h)
           /\ pc'[i] = "idle" \/ frame'[i].r2 \in ConcurrentR2
    \/ \E i \in Instances : TrainDumpModel(i)
    \/ \E i \in Instances : TrainDumpScaler(i)

SpecConcurrent == ConcurrentInit /\ [][ConcurrentNext]_vars

---------------------------------------------------------------------------
(* CryptoPricePredictor.save_predictions_to_db: one INSERT per prediction  *)
(* of the list, with the dates and values of the prediction as they are    *)
(* and the model version 'v1.0'.  The table has no key besides its id.     *)
PredictionRow(pred) ==
    [coin_id          |-> pred.coin_id,
     prediction_date  |-> pred.prediction_date,
     target_date      |-> pred.target_date,
     predicted_price  |-> pred.predicted_price,
     confidence_score |-> pred.confidence,
     model_version    |-> "v1.0"]

save_predictions_to_db(i, predictions) ==
    /\ pc[i] = "idle"
    /\ ml_predictions' =
           ml_predictions \o [k \in 1..Len(predictions) |->
                                 PredictionRow(predictions[k])]
    /\ last' = Ended("save_predictions_to_db", "", 0, i, "None")
    /\ UNCHANGED <<historical_prices, technical_indicators, ml_features,
                   prep, fitted_scores, pkl_model, pkl_scaler, models, scalers,
                   pc, frame, ncalls,
                   collector, client>>

(* The predictions of one instance over a store that earlier trainings     *)
(* filled: a random forest, a gradient boosting and a linear regression    *)
(* were the best of their keys.  Every call has its own run; as in main,   *)
(* the predictions come first and the save of what was predicted (here the *)
(* list of the last prediction) ends the script.                           *)
Predictors == {1}

BestOfKey(key) ==
    CASE key = model_key("bitcoin", 1)  -> Candidates[1]
      [] key = model_key("bitcoin", 7)  -> Candidates[2]
      [] key = model_key("ethereum", 1) -> Candidates[3]
      [] key = model_key("ethereum", 7) -> Candidates[1]

SeriesOf(coin) ==
    Response(MIN_SAMPLES + LAG_30 + 1,
             IF coin = "bitcoin" THEN "trend" ELSE "delisted")

PredictInit ==
    /\ historical_prices =
           [c \in Coins |-> collect_rows(<<>>, SeriesOf(c))]
    /\ technical_indicators =
           [c \in Coins |->
               calculate_rows(<<>>, collect_rows(<<>>, SeriesOf(c)))]
    /\ ml_features =
           [c \in Coins |->
               create_rows(<<>>, collect_rows(<<>>, SeriesOf(c)),
                           calculate_rows(<<>>, collect_rows(<<>>, SeriesOf(c))))]
    /\ prep       = NoPrep
    /\ pkl_model  = [k \in KeySet |-> Some(Fitted(BestOfKey(k), 1))]
    /\ pkl_scaler = [k \in KeySet |-> Some([call |-> 1])]
    /\ models     = [i \in Instances |-> [k \in KeySet |-> None]]
    /\ scalers    = [i \in Instances |-> [k \in KeySet |-> None]]
    /\ pc         = [i \in Instances |-> "idle"]
    /\ frame      = [i \in Instances |-> NoFrame]
    /\ last       = NoCall
    /\ ncalls     = 0
    /\ ml_predictions = <<>>
    /\ fitted_scores = [k \in KeySet |-> None]
    /\ IngestionInit

PredictNext ==
    \/ \E i \in Predictors :
           Len(ml_predictions) = 0 /\ NewPredictor(i)
    \/ \E i \in Predictors, c \in Coins, h \in Horizons, run \in Runs :
           Len(ml_predictions) = 0 /\ predict_price(i, c, h, run)
    \/ \E i \in Predictors :
           /\ last.op = "predict_price" /\ last.outcome = "prediction"
           /\ Len(ml_predictions) = 0
           /\ save_predictions_to_db(i, <<last.info>>)

SpecPredict == PredictInit /\ [][PredictNext]_vars

---------------------------------------------------------------------------
(* CryptoPricePredictor.evaluate_model_performance (lines 238-273): the    *)
(* saved predictions of the coin joined with the price rows of their       *)
(* target_date, and the metrics over the joined rows.  A joined row is the *)
(* pair <<k, j>> of the k-th prediction and the j-th price row.  Of the    *)
(* metrics the record keeps directional_accuracy, a mean of booleans, as   *)
(* <<number of True, number of rows>>, and total_predictions.              *)
Joined(coin_id) ==
    {pr \in (1..Len(ml_predictions)) \X (1..Len(historical_prices[coin_id])) :
        /\ ml_predictions[pr[1]].coin_id = coin_id
        /\ ml_predictions[pr[1]].target_date
               = historical_prices[coin_id][pr[2]].date}

(* Lines 262-264: actual_change = (actual_price - predicted_price) > 0,    *)
(* predicted_change = predicted_price > 0, and the row counts when the two *)
(* are equal.                                                              *)
DirectionalHit(coin_id, pr) ==
    LET predicted == ml_predictions[pr[1]].predicted_price
        actual    == historical_prices[coin_id][pr[2]].price
    IN  ((actual - predicted) > 0) = (predicted > 0)

evaluate_model_performance(i, coin_id) ==
    LET df   == Joined(coin_id)
        hits == {pr \in df : DirectionalHit(coin_id, pr)}
    IN  /\ pc[i] = "idle"
        /\ last' =
               IF df = {}
               THEN Ended("evaluate_model_performance", coin_id, 0, i, "None")
               ELSE EndedWith("evaluate_model_performance", coin_id, 0, i,
                              "metrics",
                              [directional_accuracy |->
                                   <<Cardinality(hits), Cardinality(df)>>,
                               total_predictions |-> Cardinality(df)])
        /\ UNCHANGED <<historical_prices, technical_indicators, ml_features,
                       prep, ml_predictions, fitted_scores, pkl_model,
                       pkl_scaler, models, scalers, pc, frame, ncalls,
                   collector, client>>

(* Predictions are made and saved, the days pass, the prices of the target *)
(* dates are collected, and the predictions are evaluated.                 *)
MaxEvaluated == 2
HighPrediction == 3 * MaxPrices
EvaluatedRuns ==
    {[prediction |-> p, variance |-> 0, midnight |-> FALSE] :
        p \in Predicted \cup {HighPrediction}}

PatternOf(coin) == IF coin = "bitcoin" THEN "trend" ELSE "delisted"
LaterSeriesOf(coin) == Response(Today + LongestHorizon, PatternOf(coin))
Collected(coin) ==
    Len(historical_prices[coin]) = Len(LaterSeriesOf(coin))

EvaluateNext ==
    \/ \E i \in Predictors, c \in Coins, h \in Horizons, run \in EvaluatedRuns :
           /\ Len(ml_predictions) < MaxEvaluated
           /\ ~(last.op = "predict_price" /\ last.outcome = "prediction")
           /\ \A d \in Coins : ~Collected(d)
           /\ predict_price(i, c, h, run)
    \/ \E i \in Predictors :
           /\ last.op = "predict_price" /\ last.outcome = "prediction"
           /\ save_predictions_to_db(i, <<last.info>>)
    \/ \E c \in Coins :
           /\ Len(ml_predictions) > 0
           /\ last.op # "predict_price"
           /\ ~Collected(c)
           /\ collect_response(c, LaterSeriesOf(c))
    \/ \E i \in Predictors, c \in Coins :
           /\ \E d \in Coins : Collected(d)
           /\ evaluate_model_performance(i, c)

SpecEvaluate == PredictInit /\ [][EvaluateNext]_vars

---------------------------------------------------------------------------
(* CryptoDataCollector.collect_market_data (data_collector.py lines        *)
(* 74-130) over CoinGeckoClient.get_coins_markets.  A coin is kept as its  *)
(* market-cap rank.                                                        *)
warehouse_vars ==
    <<historical_prices, technical_indicators, ml_features, prep,
      pkl_model, pkl_scaler, models, scalers, pc, frame, last, ncalls,
      ml_predictions, fitted_scores>>

(* GET coins/markets with per_page and page, order market_cap_desc: the    *)
(* API serves page p of size s as the ranks (p-1)*s + 1 .. p*s.            *)
get_coins_markets(per_page, page) ==
    [k \in 1..per_page |-> (page - 1) * per_page + k]

Smaller(a, b) == IF a < b THEN a ELSE b

(* Lines 95-119: for page in range(1, pages_needed + 1), with the break    *)
(* when coins_this_page <= 0; every record of the page is appended.        *)
RECURSIVE PageLoop(_, _, _, _, _)
PageLoop(limit, per_page, pages_needed, page, collected_data) ==
    LET remaining_coins == limit - Len(collected_data)
        coins_this_page == Smaller(per_page, remaining_coins)
    IN  IF page > pages_needed \/ coins_this_page <= 0
        THEN collected_data
        ELSE PageLoop(limit, per_page, pages_needed, page + 1,
                      collected_data
                          \o get_coins_markets(coins_this_page, page))

(* Lines 92-93 and the loop: per_page = min(250, limit), pages_needed =    *)
(* (limit + per_page - 1) // per_page.                                     *)
collect_market_data(limit) ==
    LET per_page     == Smaller(PER_PAGE_MAX, limit)
        pages_needed == (limit + per_page - 1) \div per_page
    IN  /\ collector' = [limit          |-> limit,
                         collected_data |->
                             PageLoop(limit, per_page, pages_needed, 1, <<>>)]
        /\ UNCHANGED <<warehouse_vars, client>>

MarketInit == DataInit
MarketNext == \E limit \in 1..MaxLimit : collect_market_data(limit)
SpecMarket == MarketInit /\ [][MarketNext]_vars

---------------------------------------------------------------------------
(* BaseAPIClient._make_request (base_client.py lines 61-115) with          *)
(* _wait_for_rate_limit (lines 49-59).                                     *)

(* no sleep before a request *)
sleep_time_none(rate_limit, time_since_last_request) == 0

(* Lines 54-55: if time_since_last_request < self.rate_limit: sleep_time   *)
(* = self.rate_limit - time_since_last_request.                            *)
sleep_time(rate_limit, time_since_last_request) ==
    IF time_since_last_request < rate_limit
    THEN rate_limit - time_since_last_request
    ELSE 0

(* Line 104: max(self.rate_limit * 2, 10) *)
Doubled(rate_limit) ==
    IF 2 * rate_limit > MIN_RETRY_LIMIT THEN 2 * rate_limit
    ELSE MIN_RETRY_LIMIT

(* a caller calls _make_request on the client *)
make_request ==
    /\ client.pc = "idle"
    /\ client' = [client EXCEPT !.pc = "wait", !.retry = FALSE,
                                !.outcome = "none"]
    /\ UNCHANGED <<warehouse_vars, collector>>

(* Lines 51-59 and 80-85: time.sleep(sleep_time) returns after sleep_time  *)
(* or later (oversleep), last_request_time is set to the time it is then,  *)
(* and the request is sent.                                                *)
wait_for_rate_limit(oversleep) ==
    LET nap     == sleep_time(client.rate_limit,
                              client.time_since_last_request)
        elapsed == client.time_since_last_request
                       + (IF nap > 0 THEN nap + oversleep ELSE 0)
    IN  /\ client.pc = "wait"
        /\ client' = [client EXCEPT
               !.pc = "in_flight",
               !.separation = Saturated(elapsed),
               !.sent = Smaller(@ + 1, 2),
               !.time_since_last_request = 0]
        /\ UNCHANGED <<warehouse_vars, collector>>

(* a second passes while the client is idle or waits for the response *)
Tick ==
    /\ client.pc \in {"idle", "in_flight"}
    /\ client.time_since_last_request < MaxRateLimit
    /\ client' = [client EXCEPT !.time_since_last_request = @ + 1]
    /\ UNCHANGED <<warehouse_vars, collector>>

(* Lines 87-115: what the request ends with.  "json": status 200 and a     *)
(* body that decodes; "bad_json": status 200 and a body that does not;     *)
(* "http_error": raise_for_status raises for a status other than 429;      *)
(* "connection_error": session.request raises (no connection, or the       *)
(* 30-second timeout); "429": time.sleep(60), the rate limit is raised and *)
(* _make_request calls itself.                                             *)
Answers == {"json", "bad_json", "http_error", "connection_error", "429"}

respond(answer) ==
    /\ client.pc = "in_flight"
    /\ client' =
           IF answer = "429"
           THEN [client EXCEPT
                    !.pc = "wait",
                    !.retry = TRUE,
                    !.time_since_last_request = Saturated(@ + RETRY_SLEEP),
                    !.rate_limit = Saturated(Doubled(@))]
           ELSE [client EXCEPT
                    !.pc = "idle",
                    !.outcome = IF answer = "json" THEN "returned"
                                ELSE "raised"]
    /\ UNCHANGED <<warehouse_vars, collector>>

RateLimits == {DEFAULT_RATE_LIMIT, PRO_RATE_LIMIT, FREE_RATE_LIMIT}

(* Lines 19-31: BaseAPIClient(base_url, api_key, rate_limit); CoinGecko's  *)
(* client passes 2.0 with an API key and 6.0 without.                      *)
new_client(rate_limit) ==
    /\ client.pc = "idle"
    /\ client' = NewClient(rate_limit)
    /\ UNCHANGED <<warehouse_vars, collector>>

ClientInit == DataInit

ClientStep ==
    \/ wait_for_rate_limit(0)
    \/ wait_for_rate_limit(1)
    \/ \E answer \in Answers : respond(answer)

ClientNext ==
    \/ \E rate_limit \in RateLimits : new_client(rate_limit)
    \/ make_request
    \/ Tick
    \/ ClientStep

(* Every step of a call under way is taken: the sleeps end, and the        *)
(* 30-second timeout ends every wait for a response.  Which answer comes   *)
(* is the server's choice.                                                 *)
SpecClient == ClientInit /\ [][ClientNext]_vars /\ WF_vars(ClientStep)

---------------------------------------------------------------------------
(* Properties of train_models and predict_price over the model store,      *)
(* checked under Spec.                                                     *)

(* C1: a crash at any point of train_models leaves the persisted model and *)
(* scaler of the key as they were when the call began (both absent, or the *)
(* complete pair of the previous training).                                *)
CrashLeavesStoreAsBefore ==
    (last.op = "train_models" /\ last.outcome = "crashed") =>
        /\ last.info.model_now  = last.info.pre_model
        /\ last.info.scaler_now = last.info.pre_scaler

(* C2: when a train_models call that had 50 or more cleaned rows returns,  *)
(* the files of its key hold the candidate this call selected and the      *)
(* scaler this call fitted, on a first training and on a retraining.       *)
CompletedTrainingIsPersisted ==
    [][\A i \in Instances :
          TrainDumpScaler(i) =>
              /\ pkl_model'[frame[i].key]  = frame[i].best
              /\ pkl_scaler'[frame[i].key] = frame[i].scaler
              /\ Val(pkl_model'[frame[i].key]).call = frame[i].call
              /\ Val(pkl_scaler'[frame[i].key]).call = frame[i].call
              /\ frame[i].key = model_key(last'.coin, last'.days)]_vars

(* a retraining returned: the key had a model of an earlier call, and the  *)
(* files now hold this call's pair                                         *)
CompletedTrainingIsPersistedWitness ==
    /\ last.op = "train_models"
    /\ last.outcome = "results"
    /\ notna(last.info.pre_model)
    /\ Val(last.info.pre_model).call < last.info.call
    /\ Val(pkl_model[last.info.key]).call = last.info.call
    /\ Val(pkl_scaler[last.info.key]).call = last.info.call

(* C3: predict_price for a key with no model in the instance's map and no  *)
(* model file returns None (model not found), trains nothing and leaves    *)
(* the files and maps of every key as they are.                            *)
PredictWithoutModelFindsNone ==
    [][\A i \in Instances, c \in Coins, h \in Horizons :
          (/\ predict_price(i, c, h, PlainRun)
           /\ ~notna(models[i][model_key(c, h)])
           /\ ~notna(pkl_model[model_key(c, h)]))
          => /\ last' = Ended("predict_price", c, h, i, "None")
             /\ UNCHANGED <<pkl_model, pkl_scaler, models, scalers, pc,
                            frame, ncalls>>]_vars

(* such a call returned for a coin that has feature rows, while another    *)
(* key has a persisted model                                               *)
PredictWithoutModelFindsNoneWitness ==
    /\ last.op = "predict_price"
    /\ last.outcome = "None"
    /\ Len(ml_features[last.coin]) > 0
    /\ ~notna(pkl_model[model_key(last.coin, last.days)])
    /\ ~notna(models[last.inst][model_key(last.coin, last.days)])
    /\ \E k \in KeySet : notna(pkl_model[k]) /\ notna(pkl_scaler[k])

(* C4: every predict_price that returns a prediction used the model and    *)
(* the scaler that the files of the key held when it was called.           *)
PredictionUsesPersistedPair ==
    [][\A i \in Instances, c \in Coins, h \in Horizons :
          (predict_price(i, c, h, PlainRun) /\ last'.outcome = "prediction")
          => /\ last'.info.model  = pkl_model[model_key(c, h)]
             /\ last'.info.scaler = pkl_scaler[model_key(c, h)]]_vars

(* C5: train_models over a table that leaves fewer than 50 cleaned rows    *)
(* returns False and changes no map, no file and fits nothing; with 50 or  *)
(* more it goes on to fit the candidates.                                  *)
InsufficientDataAborts ==
    [][\A i \in Trainers, c \in Coins, h \in Horizons :
          (/\ AllIdle
           /\ Len(ml_features[c]) > 0
           /\ pc'[i] # "idle" \/ last'.op = "train_models"
           /\ TrainBegin(i, c, h))
          => IF Len(prepare_data(ml_features[c], h)) < MIN_SAMPLES
             THEN /\ last' = Ended("train_models", c, h, i, "False")
                  /\ UNCHANGED <<models, scalers, pkl_model, pkl_scaler, pc,
                                 frame, ncalls>>
             ELSE /\ pc'[i] = "dump_model"
                  /\ ncalls' = ncalls + 1
                  /\ frame'[i].key = model_key(c, h)]_vars

(* the call returned False for a coin with feature rows, beside a key that *)
(* was trained over exactly 50 rows                                        *)
InsufficientDataAbortsWitness ==
    /\ last.op = "train_models"
    /\ last.outcome = "False"
    /\ Len(ml_features[last.coin]) > 0
    /\ Len(prepare_data(ml_features[last.coin], last.days)) < MIN_SAMPLES
    /\ \E h \in Horizons :
           /\ notna(pkl_model[model_key(last.coin, h)])
           /\ Len(prepare_data(ml_features[last.coin], h)) = MIN_SAMPLES

(* the R2 of the candidate of a kind *)
R2Of(r2, kind) == r2[CHOOSE k \in 1..Len(Candidates) : Candidates[k] = kind]

(* C8: the model a train_models call persists has a test-set R2 at least   *)
(* as great as that of every other candidate of the call.                  *)
PersistedModelHasBestR2 ==
    [][\A i \in Instances :
          TrainDumpScaler(i) =>
              \A j \in 1..Len(Candidates) :
                  frame[i].r2[j]
                      <= R2Of(frame[i].r2, Val(pkl_model'[frame[i].key]).kind)]_vars

(* a call has written its model file, and a candidate other than the      *)
(* first, the only one with the greatest R2, is the model in the file      *)
PersistedModelHasBestR2Witness ==
    \E i \in Instances :
        /\ pc[i] = "dump_scaler"
        /\ \E k \in 2..Len(Candidates) :
               /\ \A j \in 1..Len(Candidates) :
                      j # k => frame[i].r2[j] < frame[i].r2[k]
               /\ Val(pkl_model[frame[i].key]).kind = Candidates[k]

---------------------------------------------------------------------------
(* Properties of the warehouse population and of the training front,       *)
(* checked under SpecData.                                                 *)

(* C6: whenever train_models gets as far as the split (50 or more cleaned  *)
(* rows), the training rows are a prefix of the date-ordered cleaned rows  *)
(* and the test rows the remaining suffix: together they are all the rows, *)
(* in order, none twice, the test part is a fifth of them rounded up, and  *)
(* every test date is later than every training date.                      *)
ChronologicalSplit ==
    prep.front.outcome = "split" =>
        LET df    == prep.front.df
            train == prep.front.train
            test  == prep.front.test
        IN  /\ Len(df) >= MIN_SAMPLES
            /\ Len(train) + Len(test) = Len(df)
            /\ \A k \in 1..Len(train) : train[k] = df[k]
            /\ \A k \in 1..Len(test) : test[k] = df[Len(train) + k]
            /\ \A j, k \in 1..Len(df) : j < k => df[j].row.date < df[k].row.date
            /\ 5 * Len(test) >= Len(df)
            /\ 5 * Len(test) < Len(df) + 5
            /\ Len(train) > Len(test)
            /\ \A a \in 1..Len(train), b \in 1..Len(test) :
                   train[a].row.date < test[b].row.date

(* a split of more than 50 rows whose size is not a multiple of five *)
ChronologicalSplitWitness ==
    /\ prep.front.outcome = "split"
    /\ Len(prep.front.df) > MIN_SAMPLES
    /\ Len(prep.front.df) % 5 # 0
    /\ Len(prep.front.test) > 0

(* the position of the row of a date in a date-ordered table *)
PositionOf(tbl, date) == CHOOSE p \in 1..Len(tbl) : tbl[p].date = date

(* C7: every row prepare_data returns has as target the price_current of   *)
(* the row target_days positions after it in the date-ordered feature      *)
(* table, whatever rows the cleaning removed; so none of the last          *)
(* target_days rows of the table is returned.                              *)
TargetIsHorizonAhead ==
    \A k \in 1..Len(prep.front.df) :
        LET r   == prep.front.df[k]
            pos == PositionOf(prep.tbl, r.row.date)
        IN  /\ \E p \in 1..Len(prep.tbl) : prep.tbl[p] = r.row
            /\ pos + prep.days <= Len(prep.tbl)
            /\ r.target = Some(prep.tbl[pos + prep.days].price_current)

(* cleaning removed rows from the middle of the table: two neighbours of   *)
(* the output are not neighbours in the table                              *)
TargetIsHorizonAheadWitness ==
    /\ prep.days = 7
    /\ \E k \in 1..(Len(prep.front.df) - 1) :
           PositionOf(prep.tbl, prep.front.df[k + 1].row.date)
               > PositionOf(prep.tbl, prep.front.df[k].row.date) + 1

(* C9: create_ml_features over n >= 30 price rows of distinct dates and an *)
(* empty feature table leaves exactly n - 30 feature rows.                 *)
FeatureCountIsPricesMinus30 ==
    [][\A c \in DataCoins :
          (/\ create_ml_features(c)
           /\ Len(ml_features[c]) = 0
           /\ Len(historical_prices[c]) >= LAG_30)
          => Len(ml_features'[c]) = Len(historical_prices[c]) - LAG_30]_vars

(* C10: every persisted feature row has price_1d_ago, price_7d_ago and     *)
(* price_30d_ago.                                                          *)
AllLagsPresent ==
    \A c \in Coins : \A k \in 1..Len(ml_features[c]) :
        /\ notna(ml_features[c][k].price_1d_ago)
        /\ notna(ml_features[c][k].price_7d_ago)
        /\ notna(ml_features[c][k].price_30d_ago)

(* C11: in every persisted feature row trend_direction is -1, 0 or 1, and *)
(* with c = price_current/price_7d_ago - 1 it is 1 exactly when c > 5%,    *)
(* -1 exactly when c < -5% and 0 otherwise (0 at exactly +5% and -5%).     *)
TrendDirectionFollowsChange ==
    \A c \in Coins : \A k \in 1..Len(ml_features[c]) :
        LET row == ml_features[c][k]
        IN  /\ row.trend_direction \in {-1, 0, 1}
            /\ notna(row.price_7d_ago) =>
                   LET p == row.price_current
                       q == Val(row.price_7d_ago)
                   IN  /\ row.trend_direction = 1  <=> 20 * p > 21 * q
                       /\ row.trend_direction = -1 <=> 20 * p < 19 * q

---------------------------------------------------------------------------
(* Properties of the indicators and features, checked under SpecSeries.    *)

(* C12: once calculate_technical_indicators has run over the stored price  *)
(* rows of a coin, the indicator table has one row for each price row,     *)
(* with the same date, also when two price rows fall on one date.          *)
OneIndicatorRowPerPriceRow ==
    \A c \in Coins :
        Len(technical_indicators[c]) > 0 =>
            /\ Len(technical_indicators[c]) = Len(historical_prices[c])
            /\ \A k \in 1..Len(technical_indicators[c]) :
                   technical_indicators[c][k].date = historical_prices[c][k].date

(* C13: no look-ahead.  The stored series and its first t rows are two     *)
(* series that agree up to position t: the indicator values (the moving    *)
(* averages and the RSI) stored for the date of row t, and after           *)
(* create_ml_features the feature row stored for that date, are the same   *)
(* for both.                                                               *)
NoLookAhead ==
    \A c \in Coins : \A t \in 1..Len(historical_prices[c]) :
        LET S      == historical_prices[c]
            d      == S[t].date
            prefix == SubSeq(S, 1, t)
            T      == technical_indicators[c]
            Tp     == calculate_rows(<<>>, prefix)
            F      == ml_features[c]
            Fp     == create_rows(<<>>, prefix, Tp)
            values(r) == <<r.sma_7, r.sma_14, r.sma_30, r.rsi_14>>
        IN  Len(T) > 0 =>
                /\ values(IndicatorOf(T, d)) = values(IndicatorOf(Tp, d))
                /\ last = Ended("create_ml_features", c, 0, 0, "True") =>
                       {F[k] : k \in {j \in 1..Len(F) : F[j].date = d}}
                           = {Fp[k] : k \in {j \in 1..Len(Fp) : Fp[j].date = d}}

(* The position of the price frame at which the stored indicator row of   *)
(* date d was computed: the last row of that date.                         *)
ComputedAt(S, d) ==
    CHOOSE t \in 1..Len(S) :
        S[t].date = d /\ \A u \in (t + 1)..Len(S) : S[u].date # d

(* C14: for a stored series of at least 30 rows, the sma_7 stored with an  *)
(* indicator row computed at row t of the date-ordered price frame is the  *)
(* mean of the seven prices at rows t-6..t, and is missing on the first    *)
(* six rows.                                                               *)
Sma7IsMeanOfLastSeven ==
    \A c \in Coins :
        LET S == historical_prices[c]
            T == technical_indicators[c]
        IN  Len(T) > 0 /\ Len(S) >= 30 =>
                \A k \in 1..Len(T) :
                    LET t == ComputedAt(S, T[k].date)
                    IN  IF t < 7 THEN T[k].sma_7 = None
                        ELSE T[k].sma_7 =
                                 Some(<<S[t - 6].price + S[t - 5].price
                                          + S[t - 4].price + S[t - 3].price
                                          + S[t - 2].price + S[t - 1].price
                                          + S[t].price, 7>>)

Sma7IsMeanOfLastSevenWitness ==
    \E c \in Coins :
        LET S == historical_prices[c]
            T == technical_indicators[c]
        IN  /\ Len(T) > 0 /\ Len(S) >= 30
            /\ T[1].sma_7 = None
            /\ \E k \in 1..Len(T) :
                   /\ notna(T[k].sma_7)
                   /\ Val(T[k].sma_7)[1] # 7 * S[ComputedAt(S, T[k].date)].price

(* The rows of the 14-period window that ends at row t of the frame, and  *)
(* whether the price falls, or rises, on one of them (the first row of a   *)
(* frame has no price before it).                                          *)
RsiWindow(t) == {j \in (t - RSI_WINDOW + 1)..t : j > 1}

Falls(S, t) == \E j \in RsiWindow(t) : S[j].price < S[j - 1].price

Rises(S, t) == \E j \in RsiWindow(t) : S[j].price > S[j - 1].price

(* C15: every defined rsi_14 that calculate_technical_indicators stores,   *)
(* computed at a row whose 14-period average loss is not zero, is a number *)
(* between 0 and 100 (the value is the quotient of the pair stored).       *)
RsiWithin0And100 ==
    \A c \in Coins : \A k \in 1..Len(technical_indicators[c]) :
        LET S   == historical_prices[c]
            row == technical_indicators[c][k]
            t   == ComputedAt(S, row.date)
        IN  notna(row.rsi_14) /\ Falls(S, t) =>
                /\ Val(row.rsi_14)[2] > 0
                /\ 0 <= Val(row.rsi_14)[1]
                /\ Val(row.rsi_14)[1] <= 100 * Val(row.rsi_14)[2]

RsiWithin0And100Witness ==
    \E c \in Coins : \E k \in 1..Len(technical_indicators[c]) :
        LET S   == historical_prices[c]
            row == technical_indicators[c][k]
            t   == ComputedAt(S, row.date)
        IN  /\ notna(row.rsi_14) /\ Falls(S, t) /\ Rises(S, t)
            /\ 0 < Val(row.rsi_14)[1]
            /\ Val(row.rsi_14)[1] < 100 * Val(row.rsi_14)[2]

(* C16: where the 14-period average loss is exactly zero, the call ends    *)
(* normally and the rsi_14 it stores is 100 when the average gain is       *)
(* positive and missing when the average gain is zero too.                 *)
RsiAtZeroLoss ==
    \A c \in Coins :
        Len(technical_indicators[c]) > 0 =>
            /\ last = Ended("calculate_technical_indicators", c, 0, 0, "False")
                   => Len(historical_prices[c]) = 0
            /\ \A k \in 1..Len(technical_indicators[c]) :
                   LET S   == historical_prices[c]
                       row == technical_indicators[c][k]
                       t   == ComputedAt(S, row.date)
                   IN  t >= RSI_WINDOW /\ ~Falls(S, t) =>
                           IF Rises(S, t)
                           THEN /\ notna(row.rsi_14)
                                /\ Val(row.rsi_14)[1] = 100 * Val(row.rsi_14)[2]
                                /\ Val(row.rsi_14)[2] > 0
                           ELSE row.rsi_14 = None

RsiAtZeroLossWitness ==
    \E c \in Coins :
        LET S == historical_prices[c]
            T == technical_indicators[c]
        IN  /\ last = Ended("calculate_technical_indicators", c, 0, 0, "True")
            /\ \E k \in 1..Len(T) :
                   LET t == ComputedAt(S, T[k].date)
                   IN  /\ t >= RSI_WINDOW /\ ~Falls(S, t) /\ Rises(S, t)
                       /\ notna(T[k].rsi_14)
            /\ \E k \in 1..Len(T) :
                   LET t == ComputedAt(S, T[k].date)
                   IN  /\ t >= RSI_WINDOW /\ ~Falls(S, t) /\ ~Rises(S, t)
                       /\ T[k].rsi_14 = None

---------------------------------------------------------------------------
(* Properties of the price table, checked under SpecCollect.               *)

(* C17: over any sequence of collect_historical_data calls a stored price  *)
(* row stays as it is (timestamp, price, market_cap and volume), and the   *)
(* table never holds two rows of one coin with the same timestamp.         *)
PricePointsAreImmutable ==
    [][\A c \in Coins :
           /\ \A k \in 1..Len(historical_prices[c]) :
                  \E j \in 1..Len(historical_prices'[c]) :
                      historical_prices'[c][j] = historical_prices[c][k]
           /\ \A j1, j2 \in 1..Len(historical_prices'[c]) :
                  historical_prices'[c][j1].timestamp
                      = historical_prices'[c][j2].timestamp => j1 = j2]_vars

---------------------------------------------------------------------------
(* Properties of the predictions, checked under SpecPredict.               *)

(* C18: the prediction predict_price returns, and the row                  *)
(* save_predictions_to_db writes for it, have a target_date that is        *)
(* target_days calendar days after their prediction_date.                  *)
TargetDateIsHorizonAhead ==
    [][/\ (last'.op = "predict_price" /\ last'.outcome = "prediction") =>
              last'.info.target_date
                  = last'.info.prediction_date + last'.days
       /\ last'.op = "save_predictions_to_db" =>
              \A k \in (Len(ml_predictions) + 1)..Len(ml_predictions') :
                  ml_predictions'[k].target_date
                      = ml_predictions'[k].prediction_date + last.days]_vars

(* current_price * (1 + percent / 100) on doubles, as a rational: an       *)
(* infinite percent gives an infinite product (nan, <<0, 0>>, when the     *)
(* price is 0), a nan percent gives nan.                                   *)
ApplyChange(current_price, percent) ==
    IF percent[2] = 0
    THEN <<IF current_price > 0 THEN percent[1] ELSE 0, 0>>
    ELSE <<current_price * (100 * percent[2] + percent[1]), 100 * percent[2]>>

(* C19: in every prediction predict_price returns, predicted_price is      *)
(* current_price * (1 + price_change_percent / 100), whatever price the    *)
(* most recent feature row holds.                                          *)
PriceChangeRoundTrips ==
    (last.op = "predict_price" /\ last.outcome = "prediction") =>
        LET back == ApplyChange(last.info.current_price,
                                last.info.price_change_percent)
        IN  /\ back[2] # 0
            /\ back[1] = last.info.predicted_price * back[2]

(* C20: the confidence of every prediction is within [0, 1]; for a random  *)
(* forest and for a gradient boosting it is the one derived from the       *)
(* variance of the trees' predictions relative to their mean, which a      *)
(* larger variance never raises; for a linear regression it is the default.*)
ConfidenceFollowsTreeVariance ==
    [][\A i \in Predictors, c \in Coins, h \in Horizons, run \in Runs :
          (predict_price(i, c, h, run) /\ last'.outcome = "prediction") =>
              LET conf == last'.info.confidence
                  kind == Val(last'.info.model).kind
              IN  /\ conf[2] > 0 /\ 0 <= conf[1] /\ conf[1] <= conf[2]
                  /\ kind \in {"random_forest", "gradient_boosting"} =>
                         /\ conf = TreeConfidence(run.prediction, run.variance)
                         /\ \A v \in Variances :
                                (v >= run.variance /\ run.prediction > 0) =>
                                    TreeConfidence(run.prediction, v)[1] * conf[2]
                                        <= conf[1] * TreeConfidence(run.prediction, v)[2]
                  /\ kind = "linear_regression" => conf = <<3, 4>>]_vars

---------------------------------------------------------------------------
(* Further properties of the model store, checked under Spec.              *)

(* C21: a prediction is made from the feature row of the greatest date of  *)
(* the coin; the scaler is applied exactly when the model is a linear      *)
(* regression, and that is exactly when the model was fitted on normalized *)
(* features.                                                               *)
PredictionNormalizesAsTrained ==
    (last.op = "predict_price" /\ last.outcome = "prediction") =>
        LET tbl == ml_features[last.coin]
        IN  /\ \A k \in 1..Len(tbl) : tbl[k].date <= last.info.date
            /\ \E k \in 1..Len(tbl) :
                   /\ tbl[k].date = last.info.date
                   /\ tbl[k].price_current = last.info.current_price
            /\ last.info.transformed
                   <=> Val(last.info.model).kind = "linear_regression"
            /\ last.info.transformed <=> Val(last.info.model).scaled
            /\ \A k \in KeySet :
                   notna(pkl_model[k]) =>
                       (Val(pkl_model[k]).scaled
                            <=> Val(pkl_model[k]).kind = "linear_regression")

(* a linear regression, the model the file of the key holds, predicted     *)
(* over the normalized features of the last of several rows                *)
PredictionNormalizesAsTrainedWitness ==
    /\ last.op = "predict_price" /\ last.outcome = "prediction"
    /\ last.info.transformed
    /\ Val(last.info.model).kind = "linear_regression"
    /\ Val(last.info.model).scaled
    /\ Len(ml_features[last.coin]) > 1
    /\ pkl_model[model_key(last.coin, last.days)] = last.info.model

---------------------------------------------------------------------------
(* Properties of concurrent trainings, checked under SpecConcurrent.       *)

(* C22: when no train_models call is running any more, the model file and  *)
(* the scaler file of a key come from the same call, also when two calls   *)
(* for that key ran at the same time.                                      *)
PersistedPairFromOneCall ==
    AllIdle =>
        \A k \in KeySet :
            notna(pkl_model[k]) =>
                /\ notna(pkl_scaler[k])
                /\ Val(pkl_model[k]).call = Val(pkl_scaler[k]).call

(* C23: distinct (coin, horizon) pairs have distinct keys; a step of a     *)
(* train_models call changes the files of the key of that call and of no   *)
(* other key; and when two calls for different keys have both returned,    *)
(* whatever the order of their steps, each key holds the model and the     *)
(* scaler of its own call.                                                 *)
TrainingsOfDistinctKeysAreIndependent ==
    [][/\ \A c1, c2 \in Coins, h1, h2 \in Horizons :
              model_key(c1, h1) = model_key(c2, h2) => (c1 = c2 /\ h1 = h2)
       /\ \A k \in KeySet :
              (pkl_model'[k] # pkl_model[k] \/ pkl_scaler'[k] # pkl_scaler[k])
                  => \E i \in Instances : pc[i] # "idle" /\ frame[i].key = k
       /\ \A k1, k2 \in KeySet :
              (/\ AllIdle'
               /\ k1 # k2
               /\ notna(models'[1][k1])
               /\ notna(models'[2][k2]))
              => /\ pkl_model'[k1]  = models'[1][k1]
                 /\ pkl_scaler'[k1] = scalers'[1][k1]
                 /\ pkl_model'[k2]  = models'[2][k2]
                 /\ pkl_scaler'[k2] = scalers'[2][k2]
                 /\ \A k \in KeySet \ {k1, k2} :
                        ~notna(pkl_model'[k]) /\ ~notna(pkl_scaler'[k])]_vars

(* both calls have returned; the call that began second, for another key,  *)
(* finished first                                                          *)
TrainingsOfDistinctKeysAreIndependentWitness ==
    /\ AllIdle
    /\ \E k1, k2 \in KeySet :
           /\ k1 # k2
           /\ notna(models[1][k1]) /\ notna(models[2][k2])
           /\ pkl_model[k1] = models[1][k1] /\ pkl_scaler[k1] = scalers[1][k1]
           /\ pkl_model[k2] = models[2][k2] /\ pkl_scaler[k2] = scalers[2][k2]
           /\ Val(pkl_model[k1]).call < Val(pkl_model[k2]).call
           /\ last.inst = 1

---------------------------------------------------------------------------
(* Properties of the population run, checked under SpecMain.               *)

(* C24: in main the indicators of a coin are calculated only right after   *)
(* the collection of that coin returned True, its features are created     *)
(* only after its indicators were calculated, a coin whose collection      *)
(* failed gets neither, and after a failed collection main goes on to the  *)
(* following coin.                                                         *)
MainRunsInDependencyOrder ==
    /\ [][(last'.op = "calculate_technical_indicators" =>
              (/\ last.op = "collect_historical_data"
               /\ last.outcome = "True"
               /\ last.coin = last'.coin))
          /\ (last'.op = "create_ml_features" =>
                 (/\ last.op = "calculate_technical_indicators"
                  /\ last.coin = last'.coin))
          /\ ((last.op = "collect_historical_data" /\ last.outcome = "False") =>
                 (/\ last'.op = "collect_historical_data"
                  /\ last'.coin # last.coin
                  /\ UNCHANGED <<technical_indicators, ml_features>>))]_vars
    /\ \A k \in 1..(Len(MainCoins) - 1) :
           (/\ last.op = "collect_historical_data"
            /\ last.outcome = "False"
            /\ last.coin = MainCoins[k])
               ~> (/\ last.coin = MainCoins[k + 1]
                   /\ Len(technical_indicators[MainCoins[k]]) = 0
                   /\ Len(ml_features[MainCoins[k]]) = 0)

(* the collection of the first coin failed and the second coin went        *)
(* through the three steps                                                 *)
MainRunsInDependencyOrderWitness ==
    /\ Len(historical_prices[MainCoins[1]]) = 0
    /\ Len(technical_indicators[MainCoins[1]]) = 0
    /\ last.op = "create_ml_features"
    /\ last.coin = MainCoins[2]
    /\ last.outcome = "True"
    /\ Len(technical_indicators[MainCoins[2]]) > 0
    /\ Len(ml_features[MainCoins[2]]) > 0

Direction(price, current_price) ==
    IF price > current_price THEN 1
    ELSE IF price < current_price THEN 0 - 1 ELSE 0

(* C26: the directional_accuracy evaluate_model_performance returns is the *)
(* fraction of the evaluated predictions of the coin (those whose          *)
(* target_date has a recorded actual price) whose predicted direction of   *)
(* the price change, from the current price of the prediction, equals the  *)
(* actual direction of the price change.                                   *)
DirectionalAccuracyCountsDirectionHits ==
    (last.op = "evaluate_model_performance" /\ last.outcome = "metrics") =>
        LET coin    == last.coin
            current == MostRecent(ml_features[coin]).price_current
            df      == Joined(coin)
            right   == {pr \in df :
                           Direction(ml_predictions[pr[1]].predicted_price,
                                     current)
                               = Direction(historical_prices[coin][pr[2]].price,
                                           current)}
        IN  last.info.directional_accuracy
                = <<Cardinality(right), Cardinality(df)>>

(* C29: on every predictor instance a key is in the in-memory model map    *)
(* exactly when it is in the in-memory scaler map, also after a            *)
(* predict_price that found the model file of the key and not its scaler   *)
(* file; so no predict_price fails on a missing scaler.                    *)
ModelAndScalerCachedTogether ==
    /\ \A i \in Instances, k \in KeySet :
           notna(models[i][k]) <=> notna(scalers[i][k])
    /\ ~(last.op = "predict_price" /\ last.outcome = "KeyError")

---------------------------------------------------------------------------
(* Properties of the ingestion side.                                       *)

(* C27: collect_market_data(limit) returns at most limit records and, the  *)
(* API serving page p of size s as the ranks (p-1)*s+1 .. p*s, exactly the *)
(* ranks 1 .. limit, each once, for every limit >= 1.                      *)
MarketDataIsTopLimit ==
    collector.limit >= 1 =>
        /\ Len(collector.collected_data) <= collector.limit
        /\ collector.collected_data = [k \in 1..collector.limit |-> k]

(* C28: two consecutive requests of a client, the retry after a 429        *)
(* included, are separated by at least the rate_limit in effect when the   *)
(* later one is sent; rate_limit never decreases while the client lives,   *)
(* and after a 429 it is max(2 * rate_limit, 10).                          *)
RequestsAreSpaced ==
    [][/\ (client.pc = "wait" /\ client'.pc = "in_flight") =>
              client'.separation >= client'.rate_limit
       /\ (\A rate_limit \in RateLimits : client' # NewClient(rate_limit)) =>
              client'.rate_limit >= client.rate_limit
       /\ (client.pc = "in_flight" /\ client'.pc = "wait"
               /\ Doubled(client.rate_limit) <= MaxRateLimit) =>
              client'.rate_limit = Doubled(client.rate_limit)]_vars

(* the retry after a 429 was sent, after an earlier request, under a rate  *)
(* limit above the 60 seconds the client slept                             *)
RequestsAreSpacedWitness ==
    /\ client.pc = "in_flight"
    /\ client.retry
    /\ client.sent = 2
    /\ client.rate_limit > RETRY_SLEEP
    /\ client.rate_limit < MaxRateLimit
    /\ client.separation >= client.rate_limit

(* C30: every _make_request call returns or raises, also when the server   *)
(* answers 429 to every attempt.                                           *)
MakeRequestTerminates ==
    (client.pc = "wait") ~> (client.pc = "idle")

===========================================================================
